---- MODULE Spec2Model ----
(***************************************************************************)
(* Model of Scripts/check_docs.py: the documentation link and legacy-path  *)
(* checker.  Strings are TLA+ strings (sequences of characters); a path is *)
(* the sequence of its components below the filesystem root "/".           *)
(***************************************************************************)
EXTENDS Integers, Sequences, FiniteSets, TLC

(***************************************************************************)
(* Python str primitives used by the script.                               *)
(***************************************************************************)

\* s[i] of Python (1-based here): the one-character string at position i.
CharAt(s, i) == SubSeq(s, i, i)

\* The characters str.strip() removes that can occur inside one line.
Whitespace == {" ", "\t"}

\* str.startswith(prefix)
StartsWith(s, prefix) ==
    /\ Len(prefix) <= Len(s)
    /\ SubSeq(s, 1, Len(prefix)) = prefix

\* str.endswith(suffix)
EndsWith(s, suffix) ==
    /\ Len(suffix) <= Len(s)
    /\ SubSeq(s, Len(s) - Len(suffix) + 1, Len(s)) = suffix

\* str.lstrip(): drop leading whitespace.
RECURSIVE LStrip(_)
LStrip(s) ==
    IF Len(s) > 0 /\ CharAt(s, 1) \in Whitespace THEN LStrip(Tail(s)) ELSE s

\* str.rstrip(): drop trailing whitespace.
RECURSIVE RStrip(_)
RStrip(s) ==
    IF Len(s) > 0 /\ CharAt(s, Len(s)) \in Whitespace
    THEN RStrip(SubSeq(s, 1, Len(s) - 1))
    ELSE s

\* str.strip()
Strip(s) == RStrip(LStrip(s))

\* str.lstrip("/"): drop every leading separator.
RECURSIVE LStripSlash(_)
LStripSlash(s) ==
    IF Len(s) > 0 /\ CharAt(s, 1) = "/" THEN LStripSlash(Tail(s)) ELSE s

\* str.find(sub, start): least position >= start where sub occurs, 0 if none.
RECURSIVE Find(_, _, _)
Find(s, sub, start) ==
    IF start + Len(sub) - 1 > Len(s) THEN 0
    ELSE IF SubSeq(s, start, start + Len(sub) - 1) = sub THEN start
    ELSE Find(s, sub, start + 1)

\* "sub in s"
Contains(s, sub) == Find(s, sub, 1) # 0

\* s.split(sep, 1)[0]: the text before the first occurrence of sep.
SplitFirst(s, sep) ==
    LET i == Find(s, sep, 1)
    IN  IF i = 0 THEN s ELSE SubSeq(s, 1, i - 1)

\* s.split(sep): the pieces between the occurrences of the character sep.
RECURSIVE Split(_, _)
Split(s, sep) ==
    LET i == Find(s, sep, 1)
    IN  IF i = 0 THEN <<s>>
        ELSE <<SubSeq(s, 1, i - 1)>> \o Split(SubSeq(s, i + 1, Len(s)), sep)

\* The position of the first line terminator of text from position i on,
\* 0 if there is none.
RECURSIVE FirstLineEnd(_, _)
FirstLineEnd(text, i) ==
    IF i > Len(text) THEN 0
    ELSE IF CharAt(text, i) \in {"\n", "\r"} THEN i
    ELSE FirstLineEnd(text, i + 1)

\* str.splitlines(): lines end at "\n", "\r" or "\r\n"; the terminators are
\* dropped and a final terminator opens no empty last line.
RECURSIVE SplitLines(_)
SplitLines(text) ==
    LET e == FirstLineEnd(text, 1)
        skip == IF /\ CharAt(text, e) = "\r"
                   /\ e < Len(text)
                   /\ CharAt(text, e + 1) = "\n"
                THEN e + 1 ELSE e
    IN  IF Len(text) = 0 THEN <<>>
        ELSE IF e = 0 THEN <<text>>
        ELSE <<SubSeq(text, 1, e - 1)>>
                 \o SplitLines(SubSeq(text, skip + 1, Len(text)))

\* In this module the character written ^ stands for the grave accent
\* (U+0060), which cannot be written inside a TLA+ string literal; the caret
\* itself (U+005E) is outside the model's alphabet.
Backtick == "^"

\* The printable ASCII characters of the model's alphabet in code-point order
\* (U+0020 .. U+007E without the caret).
Ascii ==
    " !\"#$%&'()*+,-./0123456789:;<=>?@ABCDEFGHIJKLMNOPQRSTUVWXYZ[\\]_^abcdefghijklmnopqrstuvwxyz{|}~"

\* ord(c)
Ord(c) ==
    LET i == CHOOSE k \in 1..Len(Ascii) : CharAt(Ascii, k) = c
    IN  IF i + 31 >= 94 THEN i + 32 ELSE i + 31

\* The code points chr() can produce inside the model's alphabet.
Printable == (32..126) \ {94}

\* chr(code) for a code in Printable.
Chr(code) == CharAt(Ascii, IF code > 94 THEN code - 32 ELSE code - 31)

\* Python's a < b on str: lexicographic by code point, a proper prefix first.
RECURSIVE StrLess(_, _)
StrLess(a, b) ==
    IF Len(b) = 0 THEN FALSE
    ELSE IF Len(a) = 0 THEN TRUE
    ELSE IF CharAt(a, 1) # CharAt(b, 1) THEN Ord(CharAt(a, 1)) < Ord(CharAt(b, 1))
    ELSE StrLess(Tail(a), Tail(b))

\* str(n) for n >= 0.
Digits == "0123456789"
RECURSIVE Str(_)
Str(n) ==
    IF n < 10 THEN CharAt(Digits, n + 1)
    ELSE Str(n \div 10) \o CharAt(Digits, (n % 10) + 1)

\* int(h, 16) of one hexadecimal digit, -1 if h is none.
HexDigits == "0123456789abcdef"
HexUpper == "0123456789ABCDEF"
HexVal(h) ==
    LET lo == {i \in 1..Len(HexDigits) : CharAt(HexDigits, i) = h}
        up == {i \in 1..Len(HexUpper) : CharAt(HexUpper, i) = h}
    IN  IF lo \cup up = {} THEN -1 ELSE (CHOOSE i \in lo \cup up : TRUE) - 1

\* urllib.parse.unquote: every "%XX" with two hexadecimal digits becomes the
\* character of that code; a "%" not followed by two hexadecimal digits stays.
\* Escapes of bytes outside the model's alphabet are left as written.
RECURSIVE unquote(_)
unquote(s) ==
    IF Len(s) = 0 THEN s
    ELSE IF /\ CharAt(s, 1) = "%"
            /\ Len(s) >= 3
            /\ HexVal(CharAt(s, 2)) >= 0
            /\ HexVal(CharAt(s, 3)) >= 0
            /\ (16 * HexVal(CharAt(s, 2)) + HexVal(CharAt(s, 3))) \in Printable
         THEN Chr(16 * HexVal(CharAt(s, 2)) + HexVal(CharAt(s, 3)))
                  \o unquote(SubSeq(s, 4, Len(s)))
         ELSE CharAt(s, 1) \o unquote(Tail(s))

(***************************************************************************)
(* pathlib: a path is the sequence of its components below "/".            *)
(***************************************************************************)

\* The components pathlib keeps of a relative path string: empty components
\* and "." are dropped, ".." is kept.
PathParts(str) == SelectSeq(Split(str, "/"), LAMBDA part : part \notin {"", "."})

\* Path.parent
Parent(path) == IF path = <<>> THEN path ELSE SubSeq(path, 1, Len(path) - 1)

\* Path.resolve() where there are no symbolic links: ".." removes the
\* component before it, and the parent of "/" is "/".
RECURSIVE Resolve(_, _)
Resolve(done, rest) ==
    IF rest = <<>> THEN done
    ELSE IF Head(rest) = ".." THEN Resolve(Parent(done), Tail(rest))
    ELSE Resolve(Append(done, Head(rest)), Tail(rest))

\* Path.__lt__: the component lists compared lexicographically.
RECURSIVE PathLess(_, _)
PathLess(p, q) ==
    IF q = <<>> THEN FALSE
    ELSE IF p = <<>> THEN TRUE
    ELSE IF Head(p) # Head(q) THEN StrLess(Head(p), Head(q))
    ELSE PathLess(Tail(p), Tail(q))

\* sorted(S) for a set of paths.
RECURSIVE Sorted(_)
Sorted(S) ==
    IF S = {} THEN <<>>
    ELSE LET least == CHOOSE p \in S : \A q \in S \ {p} : PathLess(p, q)
         IN  <<least>> \o Sorted(S \ {least})

\* "/".join(parts): str() of a relative path.
RECURSIVE JoinPath(_)
JoinPath(parts) ==
    IF parts = <<>> THEN "."
    ELSE IF Len(parts) = 1 THEN parts[1]
    ELSE parts[1] \o "/" \o JoinPath(Tail(parts))

(***************************************************************************)
(* The script's constants.                                                 *)
(***************************************************************************)

\* ROOT: the resolved directory above Scripts/.
ROOT == <<"repo">>

DOC_GLOBS ==
    << "Docs/**/*.md", "README.md", "CHANGELOG.md", "TODO.md",
       "API_REFERENCE.md", "CONTRIBUTING.md", "AGENTS.md", "WARP.md" >>

\* SKIP_PREFIXES with the "tel:" entry left out.
SKIP_PREFIXES_NoTel == << "http://", "https://", "mailto:", "javascript:" >>

SKIP_PREFIXES == << "http://", "https://", "mailto:", "tel:", "javascript:" >>

\* LEGACY_PATHS.items(): the (legacy, replacement) pairs in declaration order.
LEGACY_PATHS ==
    << << "Views/OnboardingFlowView.swift",
          "Views/Onboarding/OnboardingFlowView.swift" >>,
       << "/Views/OnboardingFlowView.swift",
          "Views/Onboarding/OnboardingFlowView.swift" >>,
       << "Views/SettingsView.swift", "Views/Settings/SettingsView.swift" >>,
       << "/Views/SettingsView.swift", "Views/Settings/SettingsView.swift" >> >>

\* The two fence openers the scan loop tests for.
BacktickFence == Backtick \o Backtick \o Backtick
TildeFence == "~~~"

(***************************************************************************)
(* State.                                                                  *)
(***************************************************************************)
VARIABLES
    tree,           \* the file tree: path |-> [kind, readable, content]
    pc,             \* where main() stands
    files,          \* iter_doc_files(), the list the outer loop walks
    file_idx,       \* how many of files the outer loop has taken
    lines,          \* text.splitlines() of the file being scanned
    line_no,        \* the number of the last line the inner loop has taken
    in_code_block,
    missing_links,  \* list of <<path, line_no, raw_target>>
    legacy_refs,    \* list of <<path, line_no, legacy, replacement>>
    stdout,         \* the lines printed so far
    returned        \* <<>> until main returns, then <<status>>

vars == << tree, pc, files, file_idx, lines, line_no, in_code_block,
           missing_links, legacy_refs, stdout, returned >>

\* The file the outer loop is at.
path == files[file_idx]

(***************************************************************************)
(* The file tree as the script sees it.                                    *)
(***************************************************************************)

\* Path.is_file()
is_file(p) == p \in DOMAIN tree /\ tree[p].kind = "file"

\* Path.is_dir()
is_dir(p) == p \in DOMAIN tree /\ tree[p].kind = "dir"

\* Path.exists(): the lookup stat() does.  The path may still hold ".."
\* components, each of which is looked up in the directory reached so far.
RECURSIVE Lookup(_, _)
Lookup(at, rest) ==
    IF rest = <<>> THEN at \in DOMAIN tree
    ELSE IF Head(rest) = ".." THEN is_dir(at) /\ Lookup(Parent(at), Tail(rest))
    ELSE Lookup(Append(at, Head(rest)), Tail(rest))

exists(p) == Lookup(<<>>, p)

\* One component of a glob pattern against one path component: a literal
\* name, or "*" followed by a literal suffix.
MatchPart(pat, part) ==
    IF StartsWith(pat, "*") THEN EndsWith(part, Tail(pat)) ELSE pat = part

\* A glob pattern (its components) against a path relative to ROOT; "**"
\* stands for any number of directories, none included.
RECURSIVE MatchParts(_, _)
MatchParts(pats, parts) ==
    IF pats = <<>> THEN parts = <<>>
    ELSE IF Head(pats) = "**"
         THEN \/ MatchParts(Tail(pats), parts)
              \/ parts # <<>> /\ MatchParts(pats, Tail(parts))
    ELSE /\ parts # <<>>
         /\ MatchPart(Head(pats), Head(parts))
         /\ MatchParts(Tail(pats), Tail(parts))

\* ROOT.glob(pattern): the entries of the tree below ROOT that match.
Glob(pattern) ==
    { p \in DOMAIN tree :
        /\ Len(p) > Len(ROOT)
        /\ SubSeq(p, 1, Len(ROOT)) = ROOT
        /\ MatchParts(Split(pattern, "/"), SubSeq(p, Len(ROOT) + 1, Len(p))) }

(***************************************************************************)
(* The script's functions.                                                 *)
(***************************************************************************)

\* iter_doc_files with the sort turned around.
iter_doc_files_descending ==
    LET found == UNION { Glob(DOC_GLOBS[i]) : i \in 1..Len(DOC_GLOBS) }
        up == Sorted({ p \in found : is_file(p) })
    IN  [ i \in 1..Len(up) |-> up[Len(up) + 1 - i] ]

iter_doc_files ==
    LET found == UNION { Glob(DOC_GLOBS[i]) : i \in 1..Len(DOC_GLOBS) }
    IN  Sorted({ p \in found : is_file(p) })

\* Optional[str]: None is <<>>, a string s is <<s>>.
None == <<>>

normalize_target(target) ==
    LET trimmed == Strip(target)
        unwrapped ==
            IF StartsWith(trimmed, "<") /\ EndsWith(trimmed, ">")
            THEN Strip(SubSeq(trimmed, 2, Len(trimmed) - 1))
            ELSE trimmed
        cut == Strip(SplitFirst(SplitFirst(unwrapped, "#"), "?"))
    IN  IF trimmed = "" THEN None
        ELSE IF StartsWith(unwrapped, "#") THEN None
        ELSE IF \E i \in 1..Len(SKIP_PREFIXES) :
                    StartsWith(unwrapped, SKIP_PREFIXES[i]) THEN None
        ELSE IF cut = "" THEN None
        ELSE <<unquote(cut)>>

resolve_target(base, target) ==
    IF StartsWith(target, "/")
    THEN ROOT \o PathParts(LStripSlash(target))
    ELSE Resolve(<<>>, base \o PathParts(target))

\* LINK_RE.finditer(line) from position pos on: the captured targets of the
\* non-overlapping matches of \[[^\]]*\]\(([^)]+)\), left to right.  A match
\* starting at a "[" runs to the first "]" after it, needs "(" right behind,
\* and then at least one character before the first ")".
RECURSIVE LINK_RE_finditer(_, _)
LINK_RE_finditer(line, pos) ==
    LET open == Find(line, "[", pos)
        close == Find(line, "]", open + 1)
        paren == Find(line, ")", close + 2)
    IN  IF open = 0 \/ close = 0 THEN <<>>
        ELSE IF /\ close < Len(line)
                /\ CharAt(line, close + 1) = "("
                /\ paren > close + 2
             THEN <<SubSeq(line, close + 2, paren - 1)>>
                      \o LINK_RE_finditer(line, paren + 1)
             ELSE LINK_RE_finditer(line, open + 1)

\* The test at the head of the inner loop's body.
IsFenceLine(line) ==
    \/ StartsWith(Strip(line), BacktickFence)
    \/ StartsWith(Strip(line), TildeFence)

\* The link loop recording the normalized target in place of the raw one.
RECURSIVE LinkFindingsNormalized(_, _, _)
LinkFindingsNormalized(file, no, raws) ==
    IF raws = <<>> THEN <<>>
    ELSE LET raw_target == Head(raws)
             target == normalize_target(raw_target)
             rest == LinkFindingsNormalized(file, no, Tail(raws))
         IN  IF target = None THEN rest
             ELSE IF ~exists(resolve_target(Parent(file), target[1]))
                  THEN <<<<file, no, target[1]>>>> \o rest
                  ELSE rest

\* What the loop over the line's links appends to missing_links.
RECURSIVE LinkFindings(_, _, _)
LinkFindings(file, no, raws) ==
    IF raws = <<>> THEN <<>>
    ELSE LET raw_target == Head(raws)
             target == normalize_target(raw_target)
             rest == LinkFindings(file, no, Tail(raws))
         IN  IF target = None THEN rest
             ELSE IF ~exists(resolve_target(Parent(file), target[1]))
                  THEN <<<<file, no, raw_target>>>> \o rest
                  ELSE rest

\* The legacy loop leaving at its first match.
RECURSIVE LegacyFindingsFirstMatch(_, _, _, _)
LegacyFindingsFirstMatch(file, no, line, i) ==
    IF i > Len(LEGACY_PATHS) THEN <<>>
    ELSE IF Contains(line, LEGACY_PATHS[i][1])
         THEN << <<file, no, LEGACY_PATHS[i][1], LEGACY_PATHS[i][2]>> >>
         ELSE LegacyFindingsFirstMatch(file, no, line, i + 1)

\* What the loop over LEGACY_PATHS appends to legacy_refs, from entry i on.
RECURSIVE LegacyFindings(_, _, _, _)
LegacyFindings(file, no, line, i) ==
    IF i > Len(LEGACY_PATHS) THEN <<>>
    ELSE LET legacy == LEGACY_PATHS[i][1]
             replacement == LEGACY_PATHS[i][2]
             rest == LegacyFindings(file, no, line, i + 1)
         IN  IF Contains(line, legacy)
             THEN <<<<file, no, legacy, replacement>>>> \o rest
             ELSE rest

\* The report lines of the two sections.
MissingLine(f) ==
    "  - " \o JoinPath(SubSeq(f[1], Len(ROOT) + 1, Len(f[1])))
           \o ":" \o Str(f[2]) \o " -> " \o f[3]

LegacyLine(f) ==
    "  - " \o JoinPath(SubSeq(f[1], Len(ROOT) + 1, Len(f[1])))
           \o ":" \o Str(f[2]) \o " uses " \o f[3] \o " (use " \o f[4] \o ")"

MissingHeader == "Missing documentation links:"
LegacyHeader == "Legacy path references:"
SuccessLine ==
    "Docs check OK: no missing links or legacy onboarding/settings paths."

\* The lines the report loops print for the two lists of findings.
RECURSIVE PrintedMissing(_)
PrintedMissing(findings) ==
    IF findings = <<>> THEN <<>>
    ELSE <<MissingLine(Head(findings))>> \o PrintedMissing(Tail(findings))

RECURSIVE PrintedLegacy(_)
PrintedLegacy(findings) ==
    IF findings = <<>> THEN <<>>
    ELSE <<LegacyLine(Head(findings))>> \o PrintedLegacy(Tail(findings))

(***************************************************************************)
(* The inputs: the file trees the script is run on.                        *)
(***************************************************************************)

\* The most lines the documents of one tree hold together, in the
\* whole-run specification and in the fence specification.
MaxLines == 3
MaxFenceLines == 4

\* The most tokens a generated link target or text line is made of.
MaxTokens == 2

GuidePath == <<"repo", "Docs", "guide.md">>
ReadmePath == <<"repo", "README.md">>

Dir == [kind |-> "dir", readable |-> FALSE, content |-> ""]
File(content) == [kind |-> "file", readable |-> TRUE, content |-> content]
Unreadable == [kind |-> "file", readable |-> FALSE, content |-> ""]
Absent == [kind |-> "none", readable |-> FALSE, content |-> ""]

\* What every tree holds: the project root, Docs/, a directory whose name
\* matches a document pattern, and a file that is no document.
FixedTree ==
    (<<>> :> Dir) @@ (ROOT :> Dir) @@ (<<"repo", "Docs">> :> Dir)
        @@ (<<"repo", "Docs", "archive.md">> :> Dir)
        @@ (<<"repo", "my file.md">> :> File(""))

\* The lines the documents of the whole-run specification are written with.
CoreLines ==
    { BacktickFence,
      "  ~~~",
      "[text](/Views/OnboardingFlowView.swift)",
      "[a](guide.md) [b](<./missing-file.md#top>)",
      "[home](#top) see Views/SettingsView.swift" }

\* "\n".join(ls)
RECURSIVE JoinLines(_)
JoinLines(ls) ==
    IF ls = <<>> THEN ""
    ELSE IF Len(ls) = 1 THEN ls[1]
    ELSE ls[1] \o "\n" \o JoinLines(Tail(ls))

\* The states a document path can be in with n lines: a readable file of
\* those lines; with no line also absent or unreadable.
DocChoices(Lines, n) ==
    { File(JoinLines(ls)) : ls \in [1..n -> Lines] }
        \cup (IF n = 0 THEN {Unreadable, Absent} ELSE {})

\* The tree with the document d (if any) at path p.
WithDoc(t, p, d) == IF d = Absent THEN t ELSE (p :> d) @@ t

\* The trees whose two document paths, Docs/guide.md and README.md, are
\* absent, unreadable or written with the given lines, at most max lines
\* together.
Trees(Lines, max) ==
    UNION { UNION { { WithDoc(WithDoc(FixedTree, GuidePath, d1), ReadmePath, d2) :
                        d1 \in DocChoices(Lines, n1),
                        d2 \in DocChoices(Lines, n2) } :
                    n2 \in 0..(max - n1) } :
            n1 \in 0..max }

\* The lines the documents of the fence specification are written with: the
\* two delimiters, a delimiter line that carries a link and a legacy path,
\* and a line with a finding of each kind.
FenceLines ==
    { BacktickFence,
      "  ~~~",
      "~~~ [x](nope.md) /Views/SettingsView.swift",
      "[text](/Views/OnboardingFlowView.swift)" }

\* main() has not started.
Entry ==
    /\ pc = "start"
    /\ files = <<>>
    /\ file_idx = 0
    /\ lines = <<>>
    /\ line_no = 0
    /\ in_code_block = FALSE
    /\ missing_links = <<>>
    /\ legacy_refs = <<>>
    /\ stdout = <<>>
    /\ returned = <<>>

Init == tree \in Trees(CoreLines, MaxLines) /\ Entry

FenceInit == tree \in Trees(FenceLines, MaxFenceLines) /\ Entry

\* The pieces generated link targets are made of.
TargetTokens ==
    { " ", "#", "?", "/", "http://", "https://", "mailto:", "tel:",
      "javascript:", "README.md", "my%20file.md", "nope.md" }

\* The pieces generated text lines are made of.
TextTokens ==
    { "Views/SettingsView.swift", "Views/OnboardingFlowView.swift", "/", " ",
      "x" }

\* "".join(ts)
RECURSIVE Concat(_)
Concat(ts) == IF ts = <<>> THEN "" ELSE Head(ts) \o Concat(Tail(ts))

\* Every concatenation of at most n of the tokens.
TokenStrings(Tokens, n) ==
    UNION { { Concat(ts) : ts \in [1..k -> Tokens] } : k \in 0..n }

\* Link targets as written between the parentheses: a body of tokens,
\* possibly wrapped in angle brackets, possibly padded with blanks.
Targets ==
    { pad \o open \o body \o close \o pad :
        pad \in {"", " "}, open \in {"", "<"}, close \in {"", ">"},
        body \in TokenStrings(TargetTokens, MaxTokens) }

\* The lines the documents of the line-level specification end with: one
\* link with a generated target, two links side by side, or generated text.
RichLines ==
    { "[t](" \o t \o ")" : t \in Targets }
        \cup { "[a](" \o t1 \o ") and [b](" \o t2 \o ")" :
                 t1 \in TargetTokens, t2 \in TargetTokens }
        \cup TokenStrings(TextTokens, MaxTokens)

\* What precedes the generated line in its document: nothing, a line of
\* prose, or the opening of a code block.
Preambles == { <<>>, <<"Intro">>, <<BacktickFence \o "python">> }

\* One document, README.md, which is unreadable or ends with a generated line.
LineInit ==
    /\ \E d \in {Unreadable} \cup
                { File(JoinLines(pre \o <<line>>)) :
                    pre \in Preambles, line \in RichLines } :
          tree = WithDoc(FixedTree, ReadmePath, d)
    /\ Entry

(***************************************************************************)
(* main(), one action per step of its control flow.                        *)
(***************************************************************************)

\* for path in iter_doc_files(): the list is built once, before the loop.
IterDocFiles ==
    /\ pc = "start"
    /\ files' = iter_doc_files
    /\ pc' = "next_file"
    /\ UNCHANGED << tree, file_idx, lines, line_no, in_code_block,
                    missing_links, legacy_refs, stdout, returned >>

\* ReadText with the flag carried over from the file before.
ReadTextKeepsFlag ==
    /\ pc = "next_file"
    /\ file_idx < Len(files)
    /\ tree[files[file_idx + 1]].readable
    /\ file_idx' = file_idx + 1
    /\ lines' = SplitLines(tree[files[file_idx + 1]].content)
    /\ line_no' = 0
    /\ pc' = "next_line"
    /\ UNCHANGED << tree, files, in_code_block, missing_links, legacy_refs,
                    stdout, returned >>

\* text = path.read_text(encoding="utf-8"); in_code_block = False
ReadText ==
    /\ pc = "next_file"
    /\ file_idx < Len(files)
    /\ tree[files[file_idx + 1]].readable
    /\ file_idx' = file_idx + 1
    /\ lines' = SplitLines(tree[files[file_idx + 1]].content)
    /\ line_no' = 0
    /\ in_code_block' = FALSE
    /\ pc' = "next_line"
    /\ UNCHANGED << tree, files, missing_links, legacy_refs, stdout, returned >>

\* A read failure caught and the file passed over.
ReadTextSkipsUnreadable ==
    /\ pc = "next_file"
    /\ file_idx < Len(files)
    /\ ~tree[files[file_idx + 1]].readable
    /\ file_idx' = file_idx + 1
    /\ UNCHANGED << tree, pc, files, lines, line_no, in_code_block,
                    missing_links, legacy_refs, stdout, returned >>

\* read_text raises (undecodable bytes, no permission): main has no handler
\* and the exception leaves it.
ReadTextRaises ==
    /\ pc = "next_file"
    /\ file_idx < Len(files)
    /\ ~tree[files[file_idx + 1]].readable
    /\ file_idx' = file_idx + 1
    /\ pc' = "raised"
    /\ UNCHANGED << tree, files, lines, line_no, in_code_block,
                    missing_links, legacy_refs, stdout, returned >>

\* The inner loop is exhausted: back to the outer loop.
EndOfFile ==
    /\ pc = "next_line"
    /\ line_no = Len(lines)
    /\ pc' = "next_file"
    /\ UNCHANGED << tree, files, file_idx, lines, line_no, in_code_block,
                    missing_links, legacy_refs, stdout, returned >>

\* A delimiter line: toggle and continue.
ToggleFence ==
    /\ pc = "next_line"
    /\ line_no < Len(lines)
    /\ IsFenceLine(lines[line_no + 1])
    /\ line_no' = line_no + 1
    /\ in_code_block' = ~in_code_block
    /\ UNCHANGED << tree, pc, files, file_idx, lines,
                    missing_links, legacy_refs, stdout, returned >>

\* A line inside a code block: continue.
SkipCodeLine ==
    /\ pc = "next_line"
    /\ line_no < Len(lines)
    /\ ~IsFenceLine(lines[line_no + 1])
    /\ in_code_block
    /\ line_no' = line_no + 1
    /\ UNCHANGED << tree, pc, files, file_idx, lines, in_code_block,
                    missing_links, legacy_refs, stdout, returned >>

\* CheckLine with the legacy loop skipped once the line has a missing link.
CheckLineLegacyUnlessMissing ==
    /\ pc = "next_line"
    /\ line_no < Len(lines)
    /\ ~IsFenceLine(lines[line_no + 1])
    /\ ~in_code_block
    /\ line_no' = line_no + 1
    /\ missing_links' = missing_links \o
           LinkFindings(path, line_no + 1,
                        LINK_RE_finditer(lines[line_no + 1], 1))
    /\ legacy_refs' = IF missing_links' # missing_links THEN legacy_refs
                      ELSE legacy_refs \o
                           LegacyFindings(path, line_no + 1, lines[line_no + 1], 1)
    /\ UNCHANGED << tree, pc, files, file_idx, lines, in_code_block,
                    stdout, returned >>

\* CheckLine going to the report as soon as a line has given a finding.
CheckLineStopsAtFinding ==
    /\ pc = "next_line"
    /\ line_no < Len(lines)
    /\ ~IsFenceLine(lines[line_no + 1])
    /\ ~in_code_block
    /\ line_no' = line_no + 1
    /\ missing_links' = missing_links \o
           LinkFindings(path, line_no + 1,
                        LINK_RE_finditer(lines[line_no + 1], 1))
    /\ legacy_refs' = legacy_refs \o
           LegacyFindings(path, line_no + 1, lines[line_no + 1], 1)
    /\ pc' = IF missing_links' # missing_links \/ legacy_refs' # legacy_refs
             THEN "report_missing" ELSE pc
    /\ UNCHANGED << tree, files, file_idx, lines, in_code_block,
                    stdout, returned >>

\* Any other line: the link loop, then the legacy loop.
CheckLine ==
    /\ pc = "next_line"
    /\ line_no < Len(lines)
    /\ ~IsFenceLine(lines[line_no + 1])
    /\ ~in_code_block
    /\ line_no' = line_no + 1
    /\ missing_links' = missing_links \o
           LinkFindings(path, line_no + 1,
                        LINK_RE_finditer(lines[line_no + 1], 1))
    /\ legacy_refs' = legacy_refs \o
           LegacyFindings(path, line_no + 1, lines[line_no + 1], 1)
    /\ UNCHANGED << tree, pc, files, file_idx, lines, in_code_block,
                    stdout, returned >>

\* The outer loop is exhausted.
EndOfScan ==
    /\ pc = "next_file"
    /\ file_idx = Len(files)
    /\ pc' = "report_missing"
    /\ UNCHANGED << tree, files, file_idx, lines, line_no, in_code_block,
                    missing_links, legacy_refs, stdout, returned >>

\* if missing_links: the header, one line per finding, an empty line.
PrintMissingLinks ==
    /\ pc = "report_missing"
    /\ stdout' = IF missing_links # <<>>
                 THEN stdout \o <<MissingHeader>>
                             \o PrintedMissing(missing_links) \o <<"">>
                 ELSE stdout
    /\ pc' = "report_legacy"
    /\ UNCHANGED << tree, files, file_idx, lines, line_no, in_code_block,
                    missing_links, legacy_refs, returned >>

\* if legacy_refs: the header, one line per finding, an empty line.
PrintLegacyRefs ==
    /\ pc = "report_legacy"
    /\ stdout' = IF legacy_refs # <<>>
                 THEN stdout \o <<LegacyHeader>>
                             \o PrintedLegacy(legacy_refs) \o <<"">>
                 ELSE stdout
    /\ pc' = "return"
    /\ UNCHANGED << tree, files, file_idx, lines, line_no, in_code_block,
                    missing_links, legacy_refs, returned >>

\* The last if testing missing_links alone.
AnyFindingMissingOnly == missing_links # <<>>

\* The condition of the last if: missing_links or legacy_refs.
AnyFinding == missing_links # <<>> \/ legacy_refs # <<>>

\* if missing_links or legacy_refs: return 1
ReturnFailure ==
    /\ pc = "return"
    /\ AnyFinding
    /\ returned' = <<1>>
    /\ pc' = "done"
    /\ UNCHANGED << tree, files, file_idx, lines, line_no, in_code_block,
                    missing_links, legacy_refs, stdout >>

\* print(the success line); return 0
ReturnSuccess ==
    /\ pc = "return"
    /\ ~AnyFinding
    /\ stdout' = Append(stdout, SuccessLine)
    /\ returned' = <<0>>
    /\ pc' = "done"
    /\ UNCHANGED << tree, files, file_idx, lines, line_no, in_code_block,
                    missing_links, legacy_refs >>

Next ==
    \/ IterDocFiles
    \/ ReadText
    \/ ReadTextRaises
    \/ EndOfFile
    \/ ToggleFence
    \/ SkipCodeLine
    \/ CheckLine
    \/ EndOfScan
    \/ PrintMissingLinks
    \/ PrintLegacyRefs
    \/ ReturnFailure
    \/ ReturnSuccess

Spec == Init /\ [][Next]_vars

\* The same program on the documents written with FenceLines.
FenceSpec == FenceInit /\ [][Next]_vars

\* The same program on the generated single-line inputs.
LineSpec == LineInit /\ [][Next]_vars

(***************************************************************************)
(* Notions the properties below are stated with.                           *)
(***************************************************************************)

\* The lines of a document of the tree.
DocLines(f) == SplitLines(tree[f].content)

\* A delimiter line: its trimmed content starts with three grave accents or
\* with three tildes.
DelimiterLine(line) ==
    LET t == Strip(line)
    IN  /\ Len(t) >= 3
        /\ SubSeq(t, 1, 3) \in {Backtick \o Backtick \o Backtick, "~~~"}

\* How many of the first n lines are delimiter lines.
Delimiters(ls, n) == Cardinality({ i \in 1..n : DelimiterLine(ls[i]) })

\* Line n is outside every code block as the toggle sees them: it is no
\* delimiter line and an even number of delimiter lines precede it.
Outside(ls, n) == ~DelimiterLine(ls[n]) /\ Delimiters(ls, n - 1) % 2 = 0

\* How many files have been read, and how many lines of the k-th (whose
\* lines are ls) the scan has gone through.
FilesRead == IF pc = "raised" THEN file_idx - 1 ELSE file_idx
LinesTaken(k, ls) == IF k = file_idx THEN line_no ELSE Len(ls)

\* The lines the scan has gone through that are outside the code blocks,
\* each with its file and its 1-based number.
CheckedLines ==
    UNION { LET ls == DocLines(files[k])
            IN  { [f |-> files[k], n |-> m, line |-> ls[m]] :
                    m \in { i \in 1..LinesTaken(k, ls) : Outside(ls, i) } } :
            k \in 1..FilesRead }

\* Every entry of a findings list is on a line the scan has gone through.
OnLinesTaken(list) ==
    \A i \in 1..Len(list) :
        \E k \in 1..FilesRead :
            /\ files[k] = list[i][1]
            /\ list[i][2] \in 1..LinesTaken(k, DocLines(files[k]))

\* The entries of a findings list for one line of one file, in list order.
At(list, f, n) == SelectSeq(list, LAMBDA e : e[1] = f /\ e[2] = n)

\* The report has not begun.
Scanning == pc \in {"start", "next_file", "next_line"}

\* The documents of the tree: the regular files at the two document paths.
Documents == { p \in {GuidePath, ReadmePath} : p \in DOMAIN tree }

\* The link occurrences of the line whose target is kept by
\* normalize_target and resolves to no existing path, left to right, each
\* as the finding <<file, line number, raw target>>.
ExpectedMissing(f, n, line) ==
    LET raws == LINK_RE_finditer(line, 1)
        kept == SelectSeq(raws, LAMBDA raw :
                    LET target == normalize_target(raw)
                    IN  /\ target # None
                        /\ ~exists(resolve_target(Parent(f), target[1])))
    IN  [ i \in 1..Len(kept) |-> <<f, n, kept[i]>> ]

\* key occurs in line.
Occurs(key, line) ==
    \E i \in 1..(Len(line) - Len(key) + 1) :
        SubSeq(line, i, i + Len(key) - 1) = key

\* The four legacy keys in the order of their declaration, with their
\* replacements.
OnboardingNew == "Views/Onboarding/OnboardingFlowView.swift"
SettingsNew == "Views/Settings/SettingsView.swift"
LegacyKeys ==
    << <<"Views/OnboardingFlowView.swift", OnboardingNew>>,
       <<"/Views/OnboardingFlowView.swift", OnboardingNew>>,
       <<"Views/SettingsView.swift", SettingsNew>>,
       <<"/Views/SettingsView.swift", SettingsNew>> >>

\* One finding per key that occurs in the line, in declaration order.
ExpectedLegacy(f, n, line) ==
    LET hit == SelectSeq(LegacyKeys, LAMBDA kr : Occurs(kr[1], line))
    IN  [ i \in 1..Len(hit) |-> <<f, n, hit[i][1], hit[i][2]>> ]

(***************************************************************************)
(* C1.  main returns 1 exactly when a finding was collected and 0 exactly  *)
(* when both lists are empty; the success line is printed exactly when it  *)
(* returns 0 and then it is all that is printed.                           *)
(***************************************************************************)
C1_ExitStatus ==
    /\ returned \in {<<>>, <<0>>, <<1>>}
    /\ returned # <<>> <=> pc = "done"
    /\ pc = "done" =>
         /\ returned = <<1>> <=> (missing_links # <<>> \/ legacy_refs # <<>>)
         /\ returned = <<0>> <=> (missing_links = <<>> /\ legacy_refs = <<>>)
    /\ (\E i \in 1..Len(stdout) : stdout[i] = SuccessLine) <=> returned = <<0>>
    /\ returned = <<0>> => stdout = <<SuccessLine>>

\* main has returned 1 on legacy references alone.
C1_Witness ==
    /\ returned = <<1>>
    /\ missing_links = <<>>
    /\ legacy_refs # <<>>

(***************************************************************************)
(* C2.  No finding sits on a line inside a fenced code block, where a      *)
(* block runs from an opening delimiter line to the next delimiter line    *)
(* of the same kind, delimiter lines of the other kind in between being    *)
(* part of the block.                                                      *)
(***************************************************************************)

\* The kind of a delimiter line: "t" for tildes, "b" for grave accents.
FenceKind(line) == IF SubSeq(Strip(line), 1, 3) = "~~~" THEN "t" ELSE "b"

\* Line m is a delimiter line of the kind of line o.
Closes(ls, o, m) == DelimiterLine(ls[m]) /\ FenceKind(ls[m]) = FenceKind(ls[o])

\* Line o opens a block: it is a delimiter line that neither lies inside a
\* block opened before it nor closes one.
RECURSIVE Opens(_, _)
Opens(ls, o) ==
    /\ DelimiterLine(ls[o])
    /\ ~\E q \in 1..(o - 1) :
          Opens(ls, q) /\ \A m \in (q + 1)..(o - 1) : ~Closes(ls, q, m)

\* Line n lies inside a block: between a line that opens one and the next
\* delimiter line of the same kind, which exists.
InMatchedBlock(ls, n) ==
    \E o \in 1..(n - 1) :
        /\ Opens(ls, o)
        /\ \A m \in (o + 1)..n : ~Closes(ls, o, m)
        /\ \E c \in (n + 1)..Len(ls) : Closes(ls, o, c)

\* No entry of the list is on a line inside such a block.
NoneInMatchedBlock(list) ==
    \A f \in Documents :
        LET ls == DocLines(f)
        IN  \A i \in 1..Len(list) :
                list[i][1] = f => ~InMatchedBlock(ls, list[i][2])

C2_NoFindingInMatchedBlock ==
    NoneInMatchedBlock(missing_links) /\ NoneInMatchedBlock(legacy_refs)

(***************************************************************************)
(* C3.  On a line outside the code blocks every link occurrence whose      *)
(* target is not discarded gives exactly one missing-link finding if the   *)
(* resolved path does not exist and none if it does; the finding carries   *)
(* the file, the 1-based line number and the raw target text as captured.  *)
(* Every finding is on a line the scan has gone through.                   *)
(***************************************************************************)
C3_OneFindingPerMissingLink ==
    /\ (\A c \in CheckedLines : LET f == c.f  n == c.n  line == c.line IN
            At(missing_links, f, n) = ExpectedMissing(f, n, line))
    /\ OnLinesTaken(missing_links)

\* A link on line 2 has given a finding whose raw target differs from its
\* normalized form.
C3_Witness ==
    /\ pc = "done"
    /\ missing_links # <<>>
    /\ missing_links[1][2] = 2
    /\ normalize_target(missing_links[1][3]) # <<missing_links[1][3]>>

(***************************************************************************)
(* C4.  A link whose target, trimmed and stripped of wrapping angle        *)
(* brackets, begins with "#" or with one of http://, https://, mailto:,    *)
(* tel:, javascript:, or is empty after trimming or after fragment and     *)
(* query stripping, is discarded and gives no missing-link finding.        *)
(***************************************************************************)

\* The targets the claim says are discarded.
Discarded(raw) ==
    LET t == Strip(raw)
        u == IF /\ Len(t) >= 1
                /\ SubSeq(t, 1, 1) = "<"
                /\ SubSeq(t, Len(t), Len(t)) = ">"
             THEN Strip(SubSeq(t, 2, Len(t) - 1)) ELSE t
    IN  \/ t = ""
        \/ StartsWith(u, "#")
        \/ \E scheme \in {"http://", "https://", "mailto:", "tel:", "javascript:"} :
              StartsWith(u, scheme)
        \/ Strip(SplitFirst(SplitFirst(u, "#"), "?")) = ""

C4_DiscardedGivesNoFinding ==
    (\A c \in CheckedLines : LET f == c.f  n == c.n  line == c.line IN
        LET raws == LINK_RE_finditer(line, 1)
        IN  \A j \in 1..Len(raws) :
                Discarded(raws[j]) =>
                    /\ normalize_target(raws[j]) = None
                    /\ \A i \in 1..Len(missing_links) :
                          missing_links[i] # <<f, n, raws[j]>>)

\* The scan has gone through a line outside the code blocks whose link
\* target is a tel: target padded and wrapped in angle brackets.
C4_Witness ==
    /\ pc = "done"
    /\ (\E c \in CheckedLines : LET f == c.f  n == c.n  line == c.line IN line = "[t]( <tel:nope.md> )")

(***************************************************************************)
(* C5.  On a line outside the code blocks each of the four legacy keys,    *)
(* in declaration order, gives one finding (file, line, key, replacement)  *)
(* exactly if it occurs in the line, however often; a line containing      *)
(* /Views/SettingsView.swift gives the finding of the bare key and then    *)
(* that of the key with the separator.                                     *)
(***************************************************************************)
C5_OneFindingPerLegacyKey ==
    /\ (\A c \in CheckedLines : LET f == c.f  n == c.n  line == c.line IN
          LET got == At(legacy_refs, f, n)
          IN  /\ got = ExpectedLegacy(f, n, line)
              /\ Occurs("/Views/SettingsView.swift", line) =>
                    /\ Len(got) >= 2
                    /\ got[Len(got) - 1] =
                          <<f, n, "Views/SettingsView.swift", SettingsNew>>
                    /\ got[Len(got)] =
                          <<f, n, "/Views/SettingsView.swift", SettingsNew>>)
    /\ OnLinesTaken(legacy_refs)

\* The line /Views/SettingsView.swift has been scanned and has given the
\* finding of the bare key and that of the key with the separator.
C5_Witness ==
    /\ pc = "done"
    /\ lines # <<>>
    /\ lines[Len(lines)] = "/Views/SettingsView.swift"
    /\ Len(legacy_refs) = 2

(***************************************************************************)
(* C6.  The two checks of a line are independent: on every line outside    *)
(* the code blocks the legacy findings are those of the keys that occur,   *)
(* whatever became of the line's links, and the missing-link findings are  *)
(* those of the unresolved links, whatever keys occur; the line            *)
(* [text](/Views/OnboardingFlowView.swift) gives a finding of each kind    *)
(* for the same file and line.                                             *)
(***************************************************************************)
C6_ChecksIndependent ==
    (\A c \in CheckedLines : LET f == c.f  n == c.n  line == c.line IN
        /\ At(legacy_refs, f, n) = ExpectedLegacy(f, n, line)
        /\ At(missing_links, f, n) = ExpectedMissing(f, n, line)
        /\ line = "[text](/Views/OnboardingFlowView.swift)" =>
              /\ \E i \in 1..Len(missing_links) :
                    missing_links[i] = <<f, n, "/Views/OnboardingFlowView.swift">>
              /\ \E i \in 1..Len(legacy_refs) :
                    legacy_refs[i][1] = f /\ legacy_refs[i][2] = n)

\* The example line has been scanned outside the code blocks, on line 2.
C6_Witness ==
    (\E c \in CheckedLines : LET f == c.f  n == c.n  line == c.line IN
        n = 2 /\ line = "[text](/Views/OnboardingFlowView.swift)")

(***************************************************************************)
(* C7.  A finding never stops the scan: nothing is printed while the scan  *)
(* runs; the report begins only after every line of every document has     *)
(* been taken, every line outside the code blocks having contributed its   *)
(* findings; and when main returns 1 every collected finding is printed.   *)
(***************************************************************************)
C7_FindingNeverStopsScan ==
    /\ Scanning => stdout = <<>>
    /\ ~Scanning /\ pc # "raised" =>
         /\ { files[k] : k \in 1..Len(files) } = Documents
         /\ file_idx = Len(files)
         /\ file_idx > 0 => line_no = Len(DocLines(path))
         /\ (\A c \in CheckedLines : LET f == c.f  n == c.n  line == c.line IN
               /\ At(missing_links, f, n) = ExpectedMissing(f, n, line)
               /\ At(legacy_refs, f, n) = ExpectedLegacy(f, n, line))
    /\ returned = <<1>> =>
         /\ \A i \in 1..Len(missing_links) :
               \E j \in 1..Len(stdout) : stdout[j] = MissingLine(missing_links[i])
         /\ \A i \in 1..Len(legacy_refs) :
               \E j \in 1..Len(stdout) : stdout[j] = LegacyLine(legacy_refs[i])
         /\ Len(stdout) = (IF missing_links = <<>> THEN 0
                           ELSE Len(missing_links) + 2)
                          + (IF legacy_refs = <<>> THEN 0
                             ELSE Len(legacy_refs) + 2)

\* main has returned 1 with a finding on the first line of the first
\* document and a finding in the second document.
C7_Witness ==
    /\ returned = <<1>>
    /\ Len(files) = 2
    /\ missing_links # <<>>
    /\ missing_links[1][1] = files[1]
    /\ missing_links[1][2] = 1
    /\ legacy_refs # <<>>
    /\ legacy_refs[Len(legacy_refs)][1] = files[2]

(***************************************************************************)
(* C8.  When a document cannot be read the run aborts there: nothing is    *)
(* printed and main returns no status, also when earlier documents have    *)
(* yielded findings; a tree with an unreadable document never leads to a   *)
(* report.                                                                 *)
(***************************************************************************)
C8_ReadFailureAborts ==
    /\ pc = "raised" =>
         /\ stdout = <<>>
         /\ returned = <<>>
         /\ ~tree[path].readable
    /\ (\E f \in Documents : ~tree[f].readable) =>
         /\ stdout = <<>>
         /\ returned = <<>>
         /\ pc \in {"start", "next_file", "next_line", "raised"}

\* The second document could not be read after the first had yielded
\* findings of both kinds.
C8_Witness ==
    /\ pc = "raised"
    /\ file_idx = 2
    /\ missing_links # <<>>
    /\ legacy_refs # <<>>

(***************************************************************************)
(* C9.  The documents are scanned in ascending path order, each regular    *)
(* file once; each finding list is at all times ordered by file in scan    *)
(* order and then by line number; within a line missing-link findings      *)
(* follow the links left to right and legacy findings the declaration      *)
(* order; the report is the missing-link section, then the legacy section, *)
(* each in list order.                                                     *)
(***************************************************************************)

\* The place of a file in the scan order: Docs/guide.md before README.md.
Rank(f) == IF f = GuidePath THEN 1 ELSE 2

\* The place of a legacy key in the declaration.
KeyIndex(key) == CHOOSE i \in 1..Len(LegacyKeys) : LegacyKeys[i][1] = key

\* The entries of a list are ordered by file, then line.
ByFileThenLine(list) ==
    \A i \in 1..Len(list) : \A j \in (i + 1)..Len(list) :
        \/ Rank(list[i][1]) < Rank(list[j][1])
        \/ list[i][1] = list[j][1] /\ list[i][2] <= list[j][2]

\* The raw targets got are, in the same order, among the link occurrences
\* raws: each at an occurrence right of the one before.
RECURSIVE LeftToRight(_, _)
LeftToRight(got, raws) ==
    IF got = <<>> THEN TRUE
    ELSE IF raws = <<>> THEN FALSE
    ELSE IF Head(got) = Head(raws) THEN LeftToRight(Tail(got), Tail(raws))
    ELSE LeftToRight(got, Tail(raws))

\* The sections of the report for the two lists of findings.
MissingSection ==
    IF missing_links = <<>> THEN <<>>
    ELSE <<MissingHeader>>
           \o [ i \in 1..Len(missing_links) |-> MissingLine(missing_links[i]) ]
           \o <<"">>
LegacySection ==
    IF legacy_refs = <<>> THEN <<>>
    ELSE <<LegacyHeader>>
           \o [ i \in 1..Len(legacy_refs) |-> LegacyLine(legacy_refs[i]) ]
           \o <<"">>

C9_ScanAndReportOrder ==
    /\ pc # "start" =>
         /\ { files[k] : k \in 1..Len(files) } = Documents
         /\ \A i \in 1..Len(files) : \A j \in (i + 1)..Len(files) :
               Rank(files[i]) < Rank(files[j])
    /\ ByFileThenLine(missing_links)
    /\ ByFileThenLine(legacy_refs)
    /\ \A i \in 1..Len(legacy_refs) : \A j \in (i + 1)..Len(legacy_refs) :
         legacy_refs[i][1] = legacy_refs[j][1] /\ legacy_refs[i][2] = legacy_refs[j][2]
            => KeyIndex(legacy_refs[i][3]) < KeyIndex(legacy_refs[j][3])
    /\ (\A c \in CheckedLines : LET f == c.f  n == c.n  line == c.line IN
         LET got == At(missing_links, f, n)
         IN  LeftToRight([ i \in 1..Len(got) |-> got[i][3] ],
                         LINK_RE_finditer(line, 1)))
    /\ pc \in {"return", "done"} =>
         stdout = MissingSection
                    \o LegacySection
                    \o (IF returned = <<0>> THEN <<SuccessLine>> ELSE <<>>)

\* Both sections are printed, both documents have findings, and one line
\* has given two missing-link findings with different targets.
C9_Witness ==
    /\ pc = "done"
    /\ Len(files) = 2
    /\ \E i \in 1..Len(missing_links) : missing_links[i][1] = files[1]
    /\ \E i \in 1..Len(legacy_refs) : legacy_refs[i][1] = files[2]
    /\ \E i \in 1..(Len(missing_links) - 1) :
          /\ missing_links[i][1] = missing_links[i + 1][1]
          /\ missing_links[i][2] = missing_links[i + 1][2]
          /\ missing_links[i][3] # missing_links[i + 1][3]

(***************************************************************************)
(* C10.  Before each line is processed the flag is the parity of the       *)
(* delimiter lines seen so far in the same file, so it is false at the     *)
(* first line of every file; every finding sits on a line that is no       *)
(* delimiter line and has an even number of delimiter lines before it in   *)
(* its own file.                                                           *)
(***************************************************************************)

\* Every entry of the list is on a line outside the code blocks.
AllOutside(list) ==
    \A f \in Documents :
        LET ls == DocLines(f)
        IN  \A i \in 1..Len(list) : list[i][1] = f => Outside(ls, list[i][2])

C10_FlagIsParity ==
    /\ pc = "next_line" =>
         /\ lines = DocLines(path)
         /\ in_code_block = (Delimiters(lines, line_no) % 2 = 1)
         /\ line_no = 0 => ~in_code_block
    /\ AllOutside(missing_links)
    /\ AllOutside(legacy_refs)

\* The first file ended inside an unclosed block and the second file has
\* yielded a finding.
C10_Witness ==
    /\ file_idx = 2
    /\ pc = "next_line"
    /\ Delimiters(DocLines(files[1]), Len(DocLines(files[1]))) % 2 = 1
    /\ \E i \in 1..Len(missing_links) : missing_links[i][1] = files[2]

====
